---- MODULE Spec2Model ----
(***************************************************************************)
(* OptionsBot: the option-chain acquisition pipeline of                    *)
(* src/src/services/optionChain/OptionChainService.js.                     *)
(*                                                                         *)
(* makeApiRequest (the retry loop), getOptionChain (health check, expiry   *)
(* dates, expiry selection, option chain) and the expiry selection as a    *)
(* function of the expiry list and the current date.                       *)
(*                                                                         *)
(* An async function runs atomically from one await to the next, so each   *)
(* action is one such segment: the settling of an HTTP attempt together    *)
(* with everything the callers do until the next attempt is issued.        *)
(***************************************************************************)
EXTENDS Integers, Sequences, FiniteSets, TLC

VARIABLES
    pc,          \* per operation: position of getOptionChain
    symbol,      \* per operation: the symbol argument
    req,         \* per operation: the locals of the running makeApiRequest call
    lastReq,     \* per operation: the makeApiRequest call that completed last
    inflight,    \* per operation: HTTP attempts issued and not yet settled
    reqLog,      \* per operation: endpoints requested so far, in order
    exhausted,   \* per operation: endpoints whose request failed after its retries
    expiryDates, \* per operation: const expiryDates (line 136)
    now,         \* per operation: const now (line 142)
    foundExpiry, \* per operation: let foundExpiry (line 143)
    result,      \* per operation: the value getOptionChain returned
    error,       \* per operation: the error getOptionChain threw
    httpAttempts, \* per operation: HTTP attempts issued so far (history)
    selPc,       \* expiry selection alone: "input" or "selected"
    selList,     \* expiry selection alone: the expiry list
    selNow,      \* expiry selection alone: the current date
    selOut,      \* expiry selection alone: the selected expiry
    fn,          \* a function called on its own: its name, "none" before the call
    args,        \* a function called on its own: its arguments
    ret,         \* a function called on its own: what it returned
    conversations,         \* ConversationManager: this.conversations
    maxConversationLength, \* ConversationManager: this.maxConversationLength
    chat,        \* per session: the handleChat request in progress
    agents,      \* AgentManager: this.agents
    globalResult, \* niftyDownsideTool: the undeclared variable result
    tool,        \* per call: the locals of calculateExpectedNifty
    once         \* one _makeApiRequestOnce call: its promise and its events

vars == <<pc, symbol, req, lastReq, inflight, reqLog, exhausted, expiryDates,
          now, foundExpiry, result, error, selPc, selList, selNow, selOut,
          fn, args, ret, httpAttempts, conversations, maxConversationLength,
          chat, agents, globalResult, tool, once>>

fetchVars == <<pc, symbol, req, lastReq, inflight, reqLog, exhausted,
               expiryDates, now, foundExpiry, result, error, httpAttempts>>

selVars == <<selPc, selList, selNow, selOut>>

callVars == <<fn, args, ret>>

objVars == <<conversations, maxConversationLength, chat, agents, globalResult,
             tool, once>>

convVars == <<conversations, maxConversationLength, chat>>

toolVars == <<globalResult, tool>>

(***************************************************************************)
(* Bounds and program constants                                            *)
(***************************************************************************)
MaxExpiries == 3          \* longest expiry list given to the selection

maxRetriesOneMore == 3 + 1

maxRetries == 3
BackoffBaseMs == 500
FirstMonthOffset == 3

Procs == {"A", "B"}       \* two concurrently running operations
Symbols == {"NIFTY", "BANKNIFTY"}

(***************************************************************************)
(* Dates.  An expiry string is DD-MMM-YYYY, kept as its three parts.       *)
(***************************************************************************)
MonthNames == <<"Jan", "Feb", "Mar", "Apr", "May", "Jun",
                "Jul", "Aug", "Sep", "Oct", "Nov", "Dec">>

MonthIndex(name) == (CHOOSE i \in 1..12 : MonthNames[i] = name) - 1

DateStr(d, m, y) == [dd |-> d, mmm |-> m, yyyy |-> y]

NoExpiry == DateStr(0, "Jan", 0)     \* foundExpiry = null

\* parts[0] of DD-MMM-YYYY is numeric, so isNaN(parts[0]) is false and the
\* string goes to new Date(dateStr): local midnight of that day.
ParseDate(s) == [year |-> s.yyyy, month |-> MonthIndex(s.mmm), day |-> s.dd]

\* Date > Date compares the time values.
DateAfter(a, b) ==
    \/ a.year > b.year
    \/ a.year = b.year /\ a.month > b.month
    \/ a.year = b.year /\ a.month = b.month /\ a.day > b.day

(***************************************************************************)
(* Expiry selection: getOptionChain, Step 2 (lines 141-181)                *)
(***************************************************************************)
Date(y, m) == [year |-> y, month |-> m]     \* now: getFullYear(), getMonth()

TargetMonth(nw, monthOffset) == nw.month + monthOffset

TargetYearNoCarry(nw, monthOffset) == nw.year

TargetYear(nw, monthOffset) == nw.year + (TargetMonth(nw, monthOffset) \div 12)

NormalizedTargetMonth(nw, monthOffset) == TargetMonth(nw, monthOffset) % 12

InTargetMonth(s, nw, monthOffset) ==
    /\ ParseDate(s).month = NormalizedTargetMonth(nw, monthOffset)
    /\ ParseDate(s).year = TargetYear(nw, monthOffset)

Filtered(list, nw, monthOffset) ==
    SelectSeq(list, LAMBDA s : InTargetMonth(s, nw, monthOffset))

LaterReversed(latest, curr) ==
    IF DateAfter(ParseDate(latest), ParseDate(curr)) THEN curr ELSE latest

\* the callback of filtered.reduce
Later(latest, curr) ==
    IF DateAfter(ParseDate(curr), ParseDate(latest)) THEN curr ELSE latest

RECURSIVE ReduceFrom(_, _, _)
ReduceFrom(f, latest, i) ==
    IF i > Len(f) THEN latest ELSE ReduceFrom(f, Later(latest, f[i]), i + 1)

\* filtered.reduce(callback) without an initial value, filtered not empty
LastExpiry(f) == ReduceFrom(f, f[1], 2)

RECURSIVE SelectFromOrFirst(_, _, _)
SelectFromOrFirst(list, nw, monthOffset) ==
    IF monthOffset < 0 THEN (IF list = <<>> THEN NoExpiry ELSE list[1])
    ELSE IF Filtered(list, nw, monthOffset) # <<>>
         THEN LastExpiry(Filtered(list, nw, monthOffset))
         ELSE SelectFromOrFirst(list, nw, monthOffset - 1)

\* the loop for (monthOffset = 3; monthOffset >= 0; monthOffset--) with its break
RECURSIVE SelectFrom(_, _, _)
SelectFrom(list, nw, monthOffset) ==
    IF monthOffset < 0 THEN NoExpiry
    ELSE IF Filtered(list, nw, monthOffset) # <<>>
         THEN LastExpiry(Filtered(list, nw, monthOffset))
         ELSE SelectFrom(list, nw, monthOffset - 1)

SelectExpiry(list, nw) == SelectFrom(list, nw, FirstMonthOffset)

(***************************************************************************)
(* makeApiRequest (lines 16-33): its locals and its steps                  *)
(***************************************************************************)
NoError == "none"

\* the rejections of _makeApiRequestOnce (lines 75-96) the model draws from
TimeoutError == "API request timeout"
InvalidJsonError == "Invalid JSON response from API"
AttemptErrors == {TimeoutError, InvalidJsonError}

\* the other rejections: req.on('error') and a status that is not 2xx
NetworkError == "API request failed: connect ECONNREFUSED"
HttpStatusError == "HTTP 500: Request failed"
AllAttemptErrors == AttemptErrors \cup {NetworkError, HttpStatusError}

Err(message, cause) == [msg |-> message, cause |-> cause]
NoErr == Err("none", NoError)

\* a parsed JSON body
Json(hasDates, dates, hasData, underlying) ==
    [hasExpiryDates |-> hasDates, expiryDates |-> dates,
     hasData |-> hasData, underlyingValue |-> underlying]
NoJson == Json(FALSE, <<>>, FALSE, 0)

Outcome(kind, value, err) == [kind |-> kind, value |-> value, err |-> err]
Pending == Outcome("pending", NoJson, NoErr)

Attempt(ok, value, err) == [ok |-> ok, value |-> value, err |-> err]

FlatDelay(attempt) == BackoffBaseMs

DoubledDelay(attempt) == 2 * BackoffBaseMs * attempt

\* setTimeout(res, 500 * attempt), line 28
BackoffDelay(attempt) == BackoffBaseMs * attempt

\* entry of makeApiRequest up to the await of the first attempt (lines 17-22)
NewRequest(endpoint) ==
    [endpoint |-> endpoint, attempt |-> 0, lastError |-> NoError,
     st |-> "inflight", log |-> <<>>, delays |-> <<>>, out |-> Pending]

NoRequest == [NewRequest("none") EXCEPT !.st = "none"]

\* line 22: return await this._makeApiRequestOnce(...)
OnAttemptSuccess(r, json) ==
    [r EXCEPT !.st = "returned",
              !.log = Append(@, Attempt(TRUE, json, NoError)),
              !.out = Outcome("value", json, NoErr)]

OnAttemptFailureKeepFirst(r, err) ==
    LET a == r.attempt + 1
        e == IF r.lastError = NoError THEN err ELSE r.lastError
        logged == Append(r.log, Attempt(FALSE, NoJson, err))
    IN  IF a < maxRetries
        THEN [r EXCEPT !.lastError = e, !.attempt = a, !.st = "sleep",
                       !.log = logged,
                       !.delays = Append(@, BackoffDelay(a))]
        ELSE [r EXCEPT !.lastError = e, !.attempt = a, !.st = "thrown",
                       !.log = logged,
                       !.out = Outcome("throw", NoJson,
                                   Err("API request failed after 3 attempts", e))]

OnAttemptFailurePermanentJson(r, err) ==
    LET a == r.attempt + 1
        logged == Append(r.log, Attempt(FALSE, NoJson, err))
    IN  IF a < maxRetries /\ err # InvalidJsonError
        THEN [r EXCEPT !.lastError = err, !.attempt = a, !.st = "sleep",
                       !.log = logged,
                       !.delays = Append(@, BackoffDelay(a))]
        ELSE [r EXCEPT !.lastError = err, !.attempt = a, !.st = "thrown",
                       !.log = logged,
                       !.out = Outcome("throw", NoJson,
                                   Err("API request failed after 3 attempts", err))]

\* the catch block (lines 23-30) and, once the loop is left, the throw (line 32)
OnAttemptFailure(r, err) ==
    LET a == r.attempt + 1
        logged == Append(r.log, Attempt(FALSE, NoJson, err))
    IN  IF a < maxRetries
        THEN [r EXCEPT !.lastError = err, !.attempt = a, !.st = "sleep",
                       !.log = logged,
                       !.delays = Append(@, BackoffDelay(a))]
        ELSE [r EXCEPT !.lastError = err, !.attempt = a, !.st = "thrown",
                       !.log = logged,
                       !.out = Outcome("throw", NoJson,
                                   Err("API request failed after 3 attempts", err))]

\* the timer fires, the loop goes round and awaits the next attempt
OnBackoffElapsedRestart(r) == [r EXCEPT !.st = "inflight", !.attempt = 0]

OnBackoffElapsed(r) == [r EXCEPT !.st = "inflight"]

\* attempt, lastError (lines 18-19) are locals of one call
StoreRequestShared(rq, p, r) ==
    [q \in DOMAIN rq |->
        IF q = p THEN r
        ELSE [rq[q] EXCEPT !.attempt = r.attempt, !.lastError = r.lastError]]

StoreRequest(rq, p, r) == [rq EXCEPT ![p] = r]

\* an attempt leaves flight when it ends, errors, or times out and is destroyed
SettledNoDestroy(n, err) == IF err = TimeoutError THEN n ELSE n - 1

Settled(n, err) == n - 1

(***************************************************************************)
(* Inputs: what the Flask API answers, and the date of the run             *)
(***************************************************************************)
HealthEndpoint == "/"
ExpiryEndpoint == "/api/expiry-dates"
ChainEndpoint == "/api/option-chain"

Nov26 == DateStr(26, "Nov", 2025)
Jan15 == DateStr(15, "Jan", 2026)
Jan29 == DateStr(29, "Jan", 2026)
Aug28 == DateStr(28, "Aug", 2025)

FetchNows == {Date(2025, 7), Date(2025, 10)}
FetchLists == {<<>>, <<Aug28>>, <<Nov26>>, <<Jan15, Nov26, Jan29>>}
ConcLists == {<<Aug28>>, <<Nov26>>}
\* the two operations meet different failures, so that an error is known
\* by the operation it belongs to
ConcErrors(p) == IF p = "A" THEN {TimeoutError} ELSE {InvalidJsonError}

ResponsesFor(endpoint, lists) ==
    IF endpoint = HealthEndpoint THEN {NoJson}
    ELSE IF endpoint = ExpiryEndpoint
         THEN {NoJson} \cup {Json(TRUE, l, FALSE, 0) : l \in lists}
         ELSE {NoJson} \cup {Json(FALSE, <<>>, TRUE, u) : u \in {0, 25000}}

Snapshot(sym, underlying, expiry) ==
    [symbol |-> sym, underlyingValue |-> underlying, currentExpiry |-> expiry]
NoSnapshot == Snapshot("none", 0, NoExpiry)

(***************************************************************************)
(* getOptionChain (lines 130-203) with ensureApiServerRunning,             *)
(* checkApiHealth, getNSEExpiryDates and fetchOptionChainForExpiry         *)
(***************************************************************************)
FetchInit ==
    /\ pc = [p \in Procs |-> "idle"]
    /\ symbol = [p \in Procs |-> "none"]
    /\ req = [p \in Procs |-> NoRequest]
    /\ lastReq = [p \in Procs |-> NoRequest]
    /\ inflight = [p \in Procs |-> 0]
    /\ reqLog = [p \in Procs |-> <<>>]
    /\ exhausted = [p \in Procs |-> {}]
    /\ expiryDates = [p \in Procs |-> <<>>]
    /\ now = [p \in Procs |-> Date(0, 0)]
    /\ foundExpiry = [p \in Procs |-> NoExpiry]
    /\ result = [p \in Procs |-> NoSnapshot]
    /\ error = [p \in Procs |-> NoErr]
    /\ httpAttempts = [p \in Procs |-> 0]

SelIdle ==
    /\ selPc = "off"
    /\ selList = <<>>
    /\ selNow = Date(0, 0)
    /\ selOut = NoExpiry

CallIdle ==
    /\ fn = "none"
    /\ args = <<>>
    /\ ret = <<>>

\* no conversation manager, agent manager, tool call or single attempt yet
ConvIdle ==
    /\ conversations = <<>>
    /\ maxConversationLength = 0
    /\ chat = <<>>

AgentsIdle == agents = <<>>

ToolIdle ==
    /\ globalResult = <<>>
    /\ tool = <<>>

OnceIdle == once = <<>>

ObjIdle == ConvIdle /\ AgentsIdle /\ ToolIdle /\ OnceIdle

\* makeApiRequest(endpoint) is called and its first attempt is issued;
\* n is the number of attempts in flight before the call
IssueRequest(p, endpoint, n) ==
    /\ req' = StoreRequest(req, p, NewRequest(endpoint))
    /\ inflight' = [inflight EXCEPT ![p] = n + 1]
    /\ reqLog' = [reqLog EXCEPT ![p] = Append(@, endpoint)]
    /\ httpAttempts' = [httpAttempts EXCEPT ![p] = @ + 1]

\* the catch of getOptionChain rethrows (lines 199-202)
Throw(p, e, n) ==
    /\ pc' = [pc EXCEPT ![p] = "failed"]
    /\ error' = [error EXCEPT ![p] = e]
    /\ req' = StoreRequest(req, p, NoRequest)
    /\ inflight' = [inflight EXCEPT ![p] = n]
    /\ UNCHANGED <<reqLog, result, httpAttempts>>

\* a caller invokes getOptionChain(symbol): Step 0 issues the health check
GetOptionChain(p, sym) ==
    /\ pc[p] = "idle"
    /\ pc' = [pc EXCEPT ![p] = "health"]
    /\ symbol' = [symbol EXCEPT ![p] = sym]
    /\ IssueRequest(p, HealthEndpoint, inflight[p])
    /\ UNCHANGED <<lastReq, exhausted, expiryDates, now, foundExpiry, result,
                   error, selVars, callVars, objVars>>

\* checkApiHealth returned (healthy or not): ensureApiServerRunning returns
\* and Step 1 asks for the expiry dates
AfterHealth(p, n) ==
    /\ pc' = [pc EXCEPT ![p] = "expiry"]
    /\ IssueRequest(p, ExpiryEndpoint, n)
    /\ UNCHANGED <<expiryDates, now, foundExpiry, result, error>>

\* getNSEExpiryDates returned or threw; Step 2 selects; Step 3 asks for the chain
AfterExpiryDates(p, json, n) ==
    IF ~json.hasExpiryDates
    THEN /\ Throw(p, Err("Invalid expiry dates response from API", NoError), n)
         /\ UNCHANGED <<expiryDates, now, foundExpiry>>
    ELSE IF Len(json.expiryDates) = 0
    THEN /\ Throw(p, Err("No expiry dates found", NoError), n)
         /\ expiryDates' = [expiryDates EXCEPT ![p] = json.expiryDates]
         /\ UNCHANGED <<now, foundExpiry>>
    ELSE \E nw \in FetchNows :
         /\ expiryDates' = [expiryDates EXCEPT ![p] = json.expiryDates]
         /\ now' = [now EXCEPT ![p] = nw]
         /\ foundExpiry' =
                [foundExpiry EXCEPT ![p] = SelectExpiry(json.expiryDates, nw)]
         /\ IF SelectExpiry(json.expiryDates, nw) = NoExpiry
            THEN Throw(p, Err("No expiry found for the next 3 months or earlier",
                              NoError), n)
            ELSE /\ pc' = [pc EXCEPT ![p] = "chain"]
                 /\ IssueRequest(p, ChainEndpoint, n)
                 /\ UNCHANGED <<result, error>>

\* fetchOptionChainForExpiry returned or threw; Step 4 builds the snapshot
AfterChain(p, json, n) ==
    /\ IF ~json.hasData
       THEN Throw(p, Err("Invalid option chain response from API", NoError), n)
       ELSE /\ pc' = [pc EXCEPT ![p] = "done"]
            /\ result' = [result EXCEPT ![p] =
                   Snapshot(symbol[p], json.underlyingValue, foundExpiry[p])]
            /\ req' = StoreRequest(req, p, NoRequest)
            /\ inflight' = [inflight EXCEPT ![p] = n]
            /\ UNCHANGED <<reqLog, error, httpAttempts>>
    /\ UNCHANGED <<expiryDates, now, foundExpiry>>

\* an attempt resolves with a parsed body; makeApiRequest returns it and the
\* caller runs on to its next await
AttemptResolvesWith(p, json) ==
    /\ req[p].st = "inflight"
    /\ lastReq' = [lastReq EXCEPT ![p] = OnAttemptSuccess(req[p], json)]
    /\ CASE pc[p] = "health" -> AfterHealth(p, Settled(inflight[p], NoError))
         [] pc[p] = "expiry" ->
                AfterExpiryDates(p, json, Settled(inflight[p], NoError))
         [] pc[p] = "chain" -> AfterChain(p, json, Settled(inflight[p], NoError))
    /\ UNCHANGED <<symbol, exhausted, selVars, callVars, objVars>>

AttemptResolves(p, lists) ==
    \E json \in ResponsesFor(req[p].endpoint, lists) : AttemptResolvesWith(p, json)

\* an attempt rejects and another attempt is left: the catch block starts the
\* backoff timer
AttemptRejectsAndRetries(p, err) ==
    /\ req[p].st = "inflight"
    /\ OnAttemptFailure(req[p], err).st = "sleep"
    /\ req' = StoreRequest(req, p, OnAttemptFailure(req[p], err))
    /\ inflight' = [inflight EXCEPT ![p] = Settled(@, err)]
    /\ UNCHANGED <<pc, symbol, lastReq, reqLog, exhausted, expiryDates, now,
                   foundExpiry, result, error, httpAttempts, selVars, callVars,
                   objVars>>

\* the last attempt rejects: makeApiRequest throws.  checkApiHealth catches
\* the throw and answers {healthy: false} (lines 218-224), on which
\* ensureApiServerRunning returns false (line 247) and getOptionChain goes
\* on; the other callers rethrow
AttemptRejectsAndThrows(p, err) ==
    /\ req[p].st = "inflight"
    /\ OnAttemptFailure(req[p], err).st = "thrown"
    /\ lastReq' = [lastReq EXCEPT ![p] = OnAttemptFailure(req[p], err)]
    /\ exhausted' = [exhausted EXCEPT ![p] = @ \cup {req[p].endpoint}]
    /\ IF pc[p] = "health"
       THEN AfterHealth(p, Settled(inflight[p], err))
       ELSE /\ Throw(p, OnAttemptFailure(req[p], err).out.err,
                     Settled(inflight[p], err))
            /\ UNCHANGED <<expiryDates, now, foundExpiry>>
    /\ UNCHANGED <<symbol, selVars, callVars, objVars>>

\* the backoff timer fires and the next attempt is issued
BackoffElapses(p) ==
    /\ req[p].st = "sleep"
    /\ req' = StoreRequest(req, p, OnBackoffElapsed(req[p]))
    /\ inflight' = [inflight EXCEPT ![p] = @ + 1]
    /\ httpAttempts' = [httpAttempts EXCEPT ![p] = @ + 1]
    /\ UNCHANGED <<pc, symbol, lastReq, reqLog, exhausted, expiryDates, now,
                   foundExpiry, result, error, selVars, callVars, objVars>>

Step(p, errors, lists) ==
    \/ \E sym \in Symbols : GetOptionChain(p, sym)
    \/ AttemptResolves(p, lists)
    \/ \E err \in errors : AttemptRejectsAndRetries(p, err)
    \/ \E err \in errors : AttemptRejectsAndThrows(p, err)
    \/ BackoffElapses(p)

\* one getOptionChain operation
Init == FetchInit /\ SelIdle /\ CallIdle /\ ObjIdle
Next == Step("A", AttemptErrors, FetchLists)
Spec == Init /\ [][Next]_vars

\* the same operation when every attempt in flight eventually settles and
\* every backoff timer eventually fires
AttemptSettles(p, errors, lists) ==
    \/ AttemptResolves(p, lists)
    \/ \E err \in errors : AttemptRejectsAndRetries(p, err)
    \/ \E err \in errors : AttemptRejectsAndThrows(p, err)

SpecLive ==
    /\ Init
    /\ [][Next]_vars
    /\ WF_vars(AttemptSettles("A", AttemptErrors, FetchLists))
    /\ WF_vars(BackoffElapses("A"))

\* one getOptionChain operation meeting every kind of failure
KindLists == {<<Nov26>>}
NextKinds == Step("A", AllAttemptErrors, KindLists)
SpecKinds == Init /\ [][NextKinds]_vars

\* two getOptionChain operations running concurrently
NextConc == \E p \in Procs : Step(p, ConcErrors(p), ConcLists)
SpecConc == Init /\ [][NextConc]_vars

(***************************************************************************)
(* The expiry selection alone, over every expiry list up to MaxExpiries    *)
(***************************************************************************)
SelDays == {12, 26}
SelMonths == {"Jan", "Aug", "Nov"}
SelYears == {2025, 2026}
SelDates == {DateStr(d, m, y) : d \in SelDays, m \in SelMonths, y \in SelYears}
SelNows == {Date(2025, 7), Date(2025, 10)}

RECURSIVE ListsUpTo(_)
ListsUpTo(n) ==
    IF n = 0 THEN {<<>>}
    ELSE ListsUpTo(n - 1) \cup
         {Append(l, d) : l \in {x \in ListsUpTo(n - 1) : Len(x) = n - 1},
                         d \in SelDates}

SelInit ==
    /\ FetchInit
    /\ CallIdle
    /\ ObjIdle
    /\ selPc = "input"
    /\ selList \in ListsUpTo(MaxExpiries)
    /\ selNow \in SelNows
    /\ selOut = NoExpiry

Select ==
    /\ selPc = "input"
    /\ selPc' = "selected"
    /\ selOut' = SelectExpiry(selList, selNow)
    /\ UNCHANGED <<selList, selNow, fetchVars, callVars, objVars>>

SpecSelect == SelInit /\ [][Select]_vars

(***************************************************************************)
(* getOptionChainNearestExpiry (lines 700-729): the expiry it fetches      *)
(***************************************************************************)
\* getNSEExpiryDates returns response.expiryDates as the API gave it (line 118)
GetNSEExpiryDates(response) == response.expiryDates

\* const nearestExpiry = expiryDates[0]
NearestExpiry(dates) == dates[1]

NearestInit ==
    /\ FetchInit
    /\ SelIdle
    /\ ObjIdle
    /\ fn = "none"
    /\ args \in {[expiryDates |-> l] : l \in ListsUpTo(MaxExpiries)}
    /\ ret = <<>>

GetOptionChainNearestExpiry ==
    /\ fn = "none"
    /\ fn' = "getOptionChainNearestExpiry"
    /\ ret' = IF Len(GetNSEExpiryDates(args)) = 0
              THEN [error |-> "No expiry dates found", expiryDates |-> <<>>,
                    nearestExpiry |-> NoExpiry]
              ELSE [error |-> NoError, expiryDates |-> GetNSEExpiryDates(args),
                    nearestExpiry |-> NearestExpiry(GetNSEExpiryDates(args))]
    /\ UNCHANGED <<args, fetchVars, selVars, objVars>>

SpecNearest == NearestInit /\ [][GetOptionChainNearestExpiry]_vars

(***************************************************************************)
(* getOptionChain, Step 4 (lines 186-198): findATMStrikeFromLists and      *)
(* getRelevantStrikesFromLists; getRelevantStrikes; and the strike search  *)
(* and window of calculateExpectedNifty (niftyDownsideTool.js)             *)
(***************************************************************************)
MaxStrikes == 2           \* longest CE list and PE list in arbitrary order
MaxChain == 13            \* longest regular chain of strikes

DefaultRange == 5
StrikesBelow == 4
StrikesAbove == 5

Abs(x) == IF x < 0 THEN -x ELSE x
Min(a, b) == IF a < b THEN a ELSE b
Max(a, b) == IF a > b THEN a ELSE b

Contains(s, x) == \E i \in 1..Len(s) : s[i] = x

\* array.slice(start, end): start 0-based, end exclusive, end cut at the length
Slice(s, start, end) == SubSeq(s, start + 1, Min(end, Len(s)))

RECURSIVE InsertAsc(_, _)
InsertAsc(s, x) ==
    IF s = <<>> THEN <<x>>
    ELSE IF x < Head(s) THEN <<x>> \o s
    ELSE <<Head(s)>> \o InsertAsc(Tail(s), x)

\* array.sort((a, b) => a - b)
RECURSIVE SortAsc(_)
SortAsc(s) == IF s = <<>> THEN <<>> ELSE InsertAsc(SortAsc(Tail(s)), Head(s))

\* the elements of a Set filled from s, in insertion order
RECURSIVE AddAll(_, _)
AddAll(seen, s) ==
    IF s = <<>> THEN seen
    ELSE AddAll(IF Contains(seen, Head(s)) THEN seen ELSE Append(seen, Head(s)),
                Tail(s))

StrikePrices(options) == [i \in 1..Len(options) |-> options[i].strikePrice]

AllStrikesRepeated(ceOptions, peOptions) ==
    StrikePrices(ceOptions) \o StrikePrices(peOptions)

\* allStrikes: every strike of the CE list, then of the PE list, once
AllStrikes(ceOptions, peOptions) ==
    AddAll(AddAll(<<>>, StrikePrices(ceOptions)), StrikePrices(peOptions))

CloserOrEqual(closest, strike, target) ==
    IF Abs(target - strike) <= Abs(target - closest) THEN strike ELSE closest

\* the forEach callback: a strike replaces the closest only when strictly closer
Closer(closest, strike, target) ==
    IF Abs(target - strike) < Abs(target - closest) THEN strike ELSE closest

RECURSIVE ClosestFrom(_, _, _, _)
ClosestFrom(strikeArray, closest, target, i) ==
    IF i > Len(strikeArray) THEN closest
    ELSE ClosestFrom(strikeArray, Closer(closest, strikeArray[i], target),
                     target, i + 1)

FindATMStrikeFromLists(ceOptions, peOptions, underlyingValue) ==
    LET strikeArray == SortAsc(AllStrikes(ceOptions, peOptions))
    IN  IF Len(strikeArray) = 0 THEN 0
        ELSE ClosestFrom(strikeArray, strikeArray[1], underlyingValue, 1)

\* lastPrice of the first option of the list at that strike, 0 when there is none
LastPriceAt(options, strikePrice) ==
    IF \E i \in 1..Len(options) : options[i].strikePrice = strikePrice
    THEN options[CHOOSE i \in 1..Len(options) :
                    /\ options[i].strikePrice = strikePrice
                    /\ \A j \in 1..(i - 1) : options[j].strikePrice # strikePrice
                ].lastPrice
    ELSE 0

Row(ceOptions, peOptions, strikePrice) ==
    [strikePrice |-> strikePrice,
     call |-> [lastPrice |-> LastPriceAt(ceOptions, strikePrice)],
     put |-> [lastPrice |-> LastPriceAt(peOptions, strikePrice)]]

GetRelevantStrikesFromListsWindow(ceOptions, peOptions, atmStrike, range) ==
    LET sortedStrikes == SortAsc(AllStrikes(ceOptions, peOptions))
        atmIndex == CHOOSE i \in 0..Len(sortedStrikes) :
                        i = 0 \/ sortedStrikes[i] = atmStrike
        window == IF atmIndex = 0 THEN Slice(sortedStrikes, 0, 2 * range + 1)
                  ELSE Slice(sortedStrikes, Max(0, atmIndex - 1 - range),
                             atmIndex + range)
    IN  [i \in 1..Len(window) |-> Row(ceOptions, peOptions, window[i])]

\* "Return all strikes, not just a range": atmStrike and range are not used
GetRelevantStrikesFromLists(ceOptions, peOptions, atmStrike, range) ==
    LET sortedStrikes == SortAsc(AllStrikes(ceOptions, peOptions))
    IN  [i \in 1..Len(sortedStrikes) |->
            Row(ceOptions, peOptions, sortedStrikes[i])]

\* findIndex: the 0-based index of the first element at that strike, -1 if none
FindIndex(strikes, strike) ==
    IF Contains(strikes, strike)
    THEN (CHOOSE i \in 1..Len(strikes) :
             strikes[i] = strike /\ \A j \in 1..(i - 1) : strikes[j] # strike) - 1
    ELSE -1

\* getRelevantStrikes (lines 289-303), on the strike prices of optionData
GetRelevantStrikes(strikes, atmStrike, range) ==
    LET sortedData == SortAsc(strikes)
        atmIndex == FindIndex(sortedData, atmStrike)
        startIndex == Max(0, atmIndex - range)
        endIndex == Min(Len(sortedData) - 1, atmIndex + range)
    IN  IF atmIndex = -1 THEN Slice(sortedData, 0, range * 2 + 1)
        ELSE Slice(sortedData, startIndex, endIndex + 1)

\* calculateExpectedNifty, lines 48-57: the index (0-based) of the closest strike
RECURSIVE ClosestIdxFrom(_, _, _, _)
ClosestIdxFrom(strikePrices, closestIdx, expectedNifty, i) ==
    IF i >= Len(strikePrices) THEN closestIdx
    ELSE ClosestIdxFrom(strikePrices,
             IF Abs(strikePrices[i + 1] - expectedNifty)
                    < Abs(strikePrices[closestIdx + 1] - expectedNifty)
             THEN i ELSE closestIdx,
             expectedNifty, i + 1)

ClosestIdx(strikePrices, expectedNifty) ==
    IF strikePrices = <<>> THEN 0
    ELSE ClosestIdxFrom(strikePrices, 0, expectedNifty, 1)

SurroundingStrikesShort(strikePrices, closestIdx) ==
    Slice(strikePrices, Max(0, closestIdx - StrikesBelow),
          Min(Len(strikePrices), closestIdx + StrikesBelow))

\* lines 59-61: 4 below, the closest, 4 above
SurroundingStrikes(strikePrices, closestIdx) ==
    Slice(strikePrices, Max(0, closestIdx - StrikesBelow),
          Min(Len(strikePrices), closestIdx + StrikesAbove))

\* inputs: an option-chain body and the expected Nifty value
StrikeUniverse == {100, 150, 200}
CeOption(k) == [strikePrice |-> k, lastPrice |-> 10]
PeOption(k) == [strikePrice |-> k, lastPrice |-> 20]

RECURSIVE SeqsUpTo(_, _)
SeqsUpTo(S, n) ==
    IF n = 0 THEN {<<>>}
    ELSE SeqsUpTo(S, n - 1) \cup
         {Append(s, x) : s \in {t \in SeqsUpTo(S, n - 1) : Len(t) = n - 1},
                         x \in S}

\* n strikes 50 apart from 100 up, ascending or descending
RegularStrike(i) == 50 + 50 * i
ChainUp(n) == [i \in 1..n |-> CeOption(RegularStrike(i))]
ChainDown(n) == [i \in 1..n |-> PeOption(RegularStrike(n + 1 - i))]

ChainArgs(ce, pe, underlying, expected) ==
    [ceOptions |-> ce, peOptions |-> pe, underlyingValue |-> underlying,
     expectedNiftyValue |-> expected]

ArbitraryChains ==
    {ChainArgs(ce, pe, u, e) :
        ce \in SeqsUpTo({CeOption(k) : k \in StrikeUniverse}, MaxStrikes),
        pe \in SeqsUpTo({PeOption(k) : k \in StrikeUniverse}, MaxStrikes),
        u \in {0, 125, 140, 210}, e \in {125, 160}}

RegularChains ==
    {ChainArgs(ChainUp(n), ChainDown(n - 1), u, e) :
        n \in (MaxChain - 2)..MaxChain,
        u \in {100, 425, RegularStrike(MaxChain)},
        e \in {75, 175, 330, 475, 1000}}

NoChainResult ==
    [underlyingValue |-> 0, atmStrike |-> 0, optionData |-> <<>>,
     strikePrices |-> <<>>, closestIdx |-> 0, surroundingStrikes |-> <<>>,
     range |-> 0, sortedData |-> <<>>, relevantStrikes |-> <<>>]

ChainInit ==
    /\ FetchInit
    /\ SelIdle
    /\ ObjIdle
    /\ fn = "none"
    /\ args \in ArbitraryChains \cup RegularChains
    /\ ret = NoChainResult

\* getOptionChain from the body of the option-chain request to its return
GetOptionChainStep4 ==
    /\ fn = "none"
    /\ fn' = "getOptionChain"
    /\ ret' = [NoChainResult EXCEPT
                 !.underlyingValue = args.underlyingValue,
                 !.atmStrike = FindATMStrikeFromLists(args.ceOptions,
                                   args.peOptions, args.underlyingValue),
                 !.optionData = GetRelevantStrikesFromLists(args.ceOptions,
                                   args.peOptions,
                                   FindATMStrikeFromLists(args.ceOptions,
                                       args.peOptions, args.underlyingValue),
                                   DefaultRange)]
    /\ UNCHANGED <<args, fetchVars, selVars, objVars>>

\* calculateExpectedNifty, after its getOptionChain returned, called with
\* expectedNiftyValue
CalculateExpectedNifty ==
    /\ fn = "getOptionChain"
    /\ fn' = "calculateExpectedNifty"
    /\ LET strikePrices == SortAsc(AddAll(<<>>, StrikePrices(ret.optionData)))
           closestIdx == ClosestIdx(strikePrices, args.expectedNiftyValue)
       IN  ret' = [ret EXCEPT
                     !.strikePrices = strikePrices,
                     !.closestIdx = closestIdx,
                     !.surroundingStrikes =
                         SurroundingStrikes(strikePrices, closestIdx)]
    /\ UNCHANGED <<args, fetchVars, selVars, objVars>>

\* getRelevantStrikes on the CE list as it came, around the ATM strike
GetRelevantStrikesOfList ==
    /\ fn = "getOptionChain"
    /\ fn' = "getRelevantStrikes"
    /\ \E range \in {1, DefaultRange} :
           ret' = [ret EXCEPT
                     !.range = range,
                     !.sortedData = SortAsc(StrikePrices(args.ceOptions)),
                     !.relevantStrikes =
                         GetRelevantStrikes(StrikePrices(args.ceOptions),
                                            ret.atmStrike, range)]
    /\ UNCHANGED <<args, fetchVars, selVars, objVars>>

ChainNext ==
    \/ GetOptionChainStep4
    \/ CalculateExpectedNifty
    \/ GetRelevantStrikesOfList

SpecChain == ChainInit /\ [][ChainNext]_vars

(***************************************************************************)
(* analyzeBearPutSpreads (unnamed/part_008, lines 260-307).  Money is in   *)
(* hundredths of a rupee, riskReward and riskPct in hundredths, so that    *)
(* toFixed(2) is the rounding of a ratio to the nearest integer.           *)
(***************************************************************************)
DefaultLotSize == 75
DefaultCapital == 100000
LiquidVolume == 500
LiquidOi == 10000
TightPremiumGap == 10

\* Number((n / d).toFixed(2)) in hundredths: the integers nearest to n / d.
\* Halfway between two, the digit toFixed picks depends on the binary
\* value of the quotient: both neighbours are possible.
TruncatedRatio(n, d) ==
    {(IF (n < 0) # (d < 0) THEN -1 ELSE 1) * (Abs(n) \div Abs(d))}

RoundedRatio(n, d) ==
    LET q == Abs(n) \div Abs(d)
        r == Abs(n) % Abs(d)
        sign == IF (n < 0) # (d < 0) THEN -1 ELSE 1
    IN  {sign * m : m \in IF 2 * r < Abs(d) THEN {q}
                          ELSE IF 2 * r > Abs(d) THEN {q + 1}
                          ELSE {q, q + 1}}

\* Number(x.toFixed(2)) of an amount that is a whole number of hundredths
Round2(x) == RoundedRatio(x, 1)

Null == [isNull |-> TRUE, value |-> 0]
Num(v) == [isNull |-> FALSE, value |-> v]

\* longPut.lotSize || 75
LotSize(longPut) ==
    IF longPut.hasLotSize /\ longPut.lotSize # 0 THEN longPut.lotSize
    ELSE DefaultLotSize

StrikeDiff(longPut, shortPut) == Round2(longPut.strike - shortPut.strike)

NetDebitPerUnit(longPut, shortPut, lotSize) ==
    Round2(longPut.premium - shortPut.premium)

NetDebit(longPut, shortPut, lotSize) ==
    Round2((longPut.premium - shortPut.premium) * lotSize)

MaxProfit(strikeDiff, lotSize, netDebit) ==
    Round2((strikeDiff * lotSize) - netDebit)

MaxLoss(netDebit) == Round2(netDebit)

\* longPut.strike - netDebit / lotSize, as one ratio over lotSize
Breakeven(longPut, netDebit, lotSize) ==
    RoundedRatio(longPut.strike * lotSize - netDebit, lotSize)

HasRiskRewardNonZero(maxProfit, maxLoss) == maxProfit > 0 /\ maxLoss # 0

HasRiskReward(maxProfit, maxLoss) == maxProfit > 0 /\ maxLoss > 0

RiskReward(maxProfit, maxLoss) ==
    IF HasRiskReward(maxProfit, maxLoss)
    THEN {Num(v) : v \in RoundedRatio(100 * maxProfit, maxLoss)}
    ELSE {Null}

LiquidityScore(longPut, shortPut) ==
    (IF longPut.volume > LiquidVolume /\ shortPut.volume > LiquidVolume
     THEN 1 ELSE 0)
    + (IF longPut.oi > LiquidOi /\ shortPut.oi > LiquidOi THEN 1 ELSE 0)
    + (IF Abs(longPut.premium - shortPut.premium) < TightPremiumGap * 100
       THEN 1 ELSE 0)

\* delta in hundredths: -0.7 <= delta <= -0.3
DeltaOk(longPut) == longPut.delta <= -30 /\ longPut.delta >= -70

\* (maxLoss / capital) * 100 in hundredths of a percent; capital in rupees
RiskPct(maxLoss, capital) == RoundedRatio(maxLoss * 100, capital)

\* the results the map callback can return for one spread; gamma, theta and
\* iv are left out of the leg, and a comparison with undefined is false
Analyzed(spread, capital) ==
    LET longPut == spread.longPut
        shortPut == spread.shortPut
        lotSize == LotSize(longPut)
    IN  {[longPut |-> longPut, shortPut |-> shortPut,
          metrics |-> [netDebit |-> netDebit, maxProfit |-> maxProfit,
                       maxLoss |-> maxLoss, breakeven |-> breakeven,
                       riskReward |-> riskReward,
                       liquidityScore |-> LiquidityScore(longPut, shortPut),
                       deltaOk |-> DeltaOk(longPut), gammaOk |-> FALSE,
                       thetaOk |-> FALSE, ivOk |-> FALSE,
                       riskPct |-> riskPct, lotSize |-> lotSize,
                       strikeDiff |-> strikeDiff]] :
            <<strikeDiff, netDebit, maxProfit, maxLoss, breakeven,
              riskReward, riskPct>> \in
            UNION UNION UNION UNION UNION UNION
            {{{{{{{<<sd, nd, mp, ml, be, rr, rp>> :
                      rp \in RiskPct(ml, capital)} :
                     rr \in RiskReward(mp, ml)} :
                    be \in Breakeven(longPut, nd, lotSize)} :
                   ml \in MaxLoss(nd)} :
                  mp \in MaxProfit(sd, lotSize, nd)} :
                 nd \in NetDebit(longPut, shortPut, lotSize)} :
                sd \in StrikeDiff(longPut, shortPut)}}

\* inputs: one candidate per call
Leg(strike, premium, volume, oi, delta, hasLotSize, lotSize) ==
    [strike |-> strike, premium |-> premium, volume |-> volume, oi |-> oi,
     delta |-> delta, hasLotSize |-> hasLotSize, lotSize |-> lotSize]

SpreadPremiums == {500, 1250, 12575, 18550, 30000}
SpreadVolumes == {49, 50, 501}
SpreadOis == {399, 400, 10001}

LongPuts ==
    {Leg(k * 100, p, v, o, d, ls > 0, ls) :
        k \in {22200, 22300}, p \in SpreadPremiums, v \in SpreadVolumes,
        o \in SpreadOis, d \in {-50, -80}, ls \in {0, 25, 75}}

ShortPuts ==
    {Leg(22100 * 100, p, v, o, -20, FALSE, 0) :
        p \in SpreadPremiums, v \in SpreadVolumes, o \in SpreadOis}

SpreadInit ==
    /\ FetchInit
    /\ SelIdle
    /\ ObjIdle
    /\ fn = "none"
    /\ args \in {[spreads |-> <<[longPut |-> l, shortPut |-> s]>>,
                  capital |-> DefaultCapital] : l \in LongPuts, s \in ShortPuts}
    /\ ret = <<>>

AnalyzeBearPutSpreads ==
    /\ fn = "none"
    /\ fn' = "analyzeBearPutSpreads"
    /\ \E results \in [1..Len(args.spreads) ->
                          UNION {Analyzed(args.spreads[i], args.capital) :
                                    i \in 1..Len(args.spreads)}] :
           /\ \A i \in 1..Len(args.spreads) :
                  results[i] \in Analyzed(args.spreads[i], args.capital)
           /\ ret' = results
    /\ UNCHANGED <<args, fetchVars, selVars, objVars>>

SpecSpread == SpreadInit /\ [][AnalyzeBearPutSpreads]_vars

(***************************************************************************)
(* ConversationManager (unnamed/part_002, and unnamed/part_003 with the   *)
(* system message) and ChatController (api/controllers/ChatController.js). *)
(* this.conversations is a function whose domain is the sessions the Map  *)
(* has; a message is its role and content (the timestamp is left out).    *)
(***************************************************************************)
MaxStored == 4            \* longest conversation addMessage is called on (part_003)

Message(role, content) == [role |-> role, content |-> content]

Has(map, key) == key \in DOMAIN map

MapSet(map, key, value) ==
    [k \in DOMAIN map \cup {key} |-> IF k = key THEN value ELSE map[k]]

MapDelete(map, key) == [k \in DOMAIN map \ {key} |-> map[k]]

\* array.slice(n): from index n, counted from the end when n is negative
SliceFrom(s, n) ==
    SubSeq(s, (IF n < 0 THEN Max(Len(s) + n, 0) ELSE Min(n, Len(s))) + 1, Len(s))

\* getConversation (part_002, lines 13-19): the Map after the call
GetConversation(map, sessionId) ==
    IF ~Has(map, sessionId) THEN MapSet(map, sessionId, <<>>) ELSE map

\* trimConversation (part_002, lines 59-67): the Map after the call
TrimConversation(map, sessionId, maxLength) ==
    LET messages == GetConversation(map, sessionId)[sessionId]
    IN  IF Len(messages) > maxLength
        THEN MapSet(GetConversation(map, sessionId), sessionId,
                    SliceFrom(messages, -maxLength))
        ELSE GetConversation(map, sessionId)

\* the array addMessage pushed to (part_002, lines 25-28)
Pushed(map, sessionId, role, content) ==
    Append(GetConversation(map, sessionId)[sessionId], Message(role, content))

\* return messages (part_002, line 35): the array pushed to, which is no
\* longer the stored one once trimConversation has set a new array
MessagesReturned(map, sessionId, role, content, maxLength) ==
    Pushed(map, sessionId, role, content)

\* addMessage (part_002, lines 24-36): the Map after the call
AddMessageMap(map, sessionId, role, content, maxLength) ==
    TrimConversation(MapSet(map, sessionId, Pushed(map, sessionId, role, content)),
                     sessionId, maxLength)

\* the last index i with messages[i].role = 'user', 0 when there is none
LastUserIndex(messages) ==
    IF \E i \in 1..Len(messages) : messages[i].role = "user"
    THEN CHOOSE i \in 1..Len(messages) :
            /\ messages[i].role = "user"
            /\ \A j \in (i + 1)..Len(messages) : messages[j].role # "user"
    ELSE 0

\* updateLastUserMessage (part_002, lines 41-54): the array after the call
UpdatedMessages(messages, newContent) ==
    IF LastUserIndex(messages) = 0 THEN messages
    ELSE [messages EXCEPT ![LastUserIndex(messages)].content = newContent]

\* clearConversation (part_002, lines 72-81) returns true, existed or not
Cleared(existed) == TRUE

\* ChatController.clearConversation (lines 85-99): the JSON answer
ClearAnswer(success) ==
    [success |-> success,
     message |-> IF success THEN "Conversation cleared"
                 ELSE "Conversation not found"]

\* getConversation (part_003, lines 13-21)
SystemPrompt == "system prompt"
GetConversationSystem(map, sessionId) ==
    IF ~Has(map, sessionId)
    THEN MapSet(map, sessionId, <<Message("system", SystemPrompt)>>)
    ELSE map

\* trimConversation (part_003, lines 58-68)
TrimConversationSystem(map, sessionId, maxLength) ==
    LET messages == GetConversationSystem(map, sessionId)[sessionId]
    IN  IF Len(messages) > maxLength
        THEN MapSet(GetConversationSystem(map, sessionId), sessionId,
                    <<messages[1]>> \o SliceFrom(messages, -maxLength + 1))
        ELSE GetConversationSystem(map, sessionId)

\* addMessage (part_003, lines 26-36): the Map after the call
AddMessageSystemMap(map, sessionId, role, content, maxLength) ==
    TrimConversationSystem(
        MapSet(map, sessionId,
               Append(GetConversationSystem(map, sessionId)[sessionId],
                      Message(role, content))),
        sessionId, maxLength)

\* generateResponse of the agents (BearPutSpreadAgent.js, lines 85-97;
\* GeneralFinanceAgent.js, lines 30-42): the message list sent to the LLM
RECURSIVE HistoryMessages(_, _)
HistoryMessages(conversationHistory, message) ==
    IF conversationHistory = <<>> THEN <<>>
    ELSE (IF Head(conversationHistory).content # message
          THEN <<Message(Head(conversationHistory).role,
                         Head(conversationHistory).content)>>
          ELSE <<>>)
         \o HistoryMessages(Tail(conversationHistory), message)

GenerateResponseMessages(systemPrompt, message, conversationHistory) ==
    <<Message("system", systemPrompt)>>
    \o HistoryMessages(conversationHistory, message)
    \o <<Message("user", message)>>

\* processMessage(message, sessionId, conversationHistory = []) as handleChat
\* calls it (ChatController.js, line 36): with two arguments
DefaultConversationHistory == <<>>

\* inputs
Sessions == {"s1", "s2"}
Contents == {"hi", "more"}
Roles == {"user", "assistant"}
Replies == {"reply"}
ConvLengths == {1, 2}
ChatLengths == {2, 3}
AgentNames == {"BearPutSpreadAgent", "GeneralFinanceAgent"}
AgentPrompt(name) == name

NoChat == [pc |-> "idle", message |-> "", earlier |-> <<>>, sent |-> <<>>]

\* a new ChatController with its ConversationManager (constructors)
NewChatController(lengths) ==
    /\ FetchInit
    /\ SelIdle
    /\ CallIdle
    /\ AgentsIdle
    /\ ToolIdle
    /\ OnceIdle
    /\ conversations = <<>>
    /\ maxConversationLength \in lengths
    /\ chat = [s \in Sessions |-> NoChat]

\* conversationManager.addMessage(sessionId, role, content)
AddMessage(sessionId, role, content) ==
    /\ conversations' = AddMessageMap(conversations, sessionId, role, content,
                                      maxConversationLength)
    /\ fn' = "addMessage"
    /\ args' = <<sessionId, role, content>>
    /\ ret' = MessagesReturned(conversations, sessionId, role, content,
                               maxConversationLength)
    /\ UNCHANGED <<maxConversationLength, chat, agents, toolVars, once,
                   fetchVars, selVars>>

\* conversationManager.updateLastUserMessage(sessionId, newContent)
UpdateLastUserMessage(sessionId, newContent) ==
    /\ conversations' =
           MapSet(conversations, sessionId,
                  UpdatedMessages(GetConversation(conversations,
                                                  sessionId)[sessionId],
                                  newContent))
    /\ fn' = "updateLastUserMessage"
    /\ args' = <<sessionId, newContent>>
    /\ ret' = conversations'[sessionId]
    /\ UNCHANGED <<maxConversationLength, chat, agents, toolVars, once,
                   fetchVars, selVars>>

\* DELETE /chat/:sessionId: ChatController.clearConversation and the
\* clearConversation of the manager it calls; ret is the JSON answer
ClearConversation(sessionId) ==
    /\ conversations' = MapDelete(conversations, sessionId)
    /\ fn' = "clearConversation"
    /\ args' = <<sessionId, Has(conversations, sessionId)>>
    /\ ret' = ClearAnswer(Cleared(Has(conversations, sessionId)))
    /\ UNCHANGED <<maxConversationLength, chat, agents, toolVars, once,
                   fetchVars, selVars>>

\* POST /chat, handleChat up to the stream of the agent (lines 13-48): the
\* user message is stored, processMessage selects an agent and the agent
\* sends its message list to the LLM
HandleChat(sessionId, message) ==
    /\ chat[sessionId].pc = "idle"
    /\ conversations' = AddMessageMap(conversations, sessionId, "user", message,
                                      maxConversationLength)
    /\ \E name \in AgentNames :
           chat' = [chat EXCEPT ![sessionId] =
                      [pc |-> "streaming", message |-> message,
                       earlier |-> GetConversation(conversations,
                                                   sessionId)[sessionId],
                       sent |-> GenerateResponseMessages(AgentPrompt(name),
                                    message, DefaultConversationHistory)]]
    /\ UNCHANGED <<maxConversationLength, agents, toolVars, once, fetchVars,
                   selVars, callVars>>

\* the stream ends (lines 48-68): the assistant message is stored
HandleChatStreamEnds(sessionId, fullResponse) ==
    /\ chat[sessionId].pc = "streaming"
    /\ conversations' = AddMessageMap(conversations, sessionId, "assistant",
                                      fullResponse, maxConversationLength)
    /\ chat' = [chat EXCEPT ![sessionId] = NoChat]
    /\ UNCHANGED <<maxConversationLength, agents, toolVars, once, fetchVars,
                   selVars, callVars>>

\* processMessage or the stream throws (lines 70-79): nothing is stored
HandleChatFails(sessionId) ==
    /\ chat[sessionId].pc = "streaming"
    /\ chat' = [chat EXCEPT ![sessionId] = NoChat]
    /\ UNCHANGED <<conversations, maxConversationLength, agents, toolVars, once,
                   fetchVars, selVars, callVars>>

\* calls into the ConversationManager, and the clear endpoint
ConvInit == NewChatController(ConvLengths)
ConvNext ==
    \/ \E s \in Sessions, r \in Roles, c \in Contents : AddMessage(s, r, c)
    \/ \E s \in Sessions, c \in Contents : UpdateLastUserMessage(s, c)
    \/ \E s \in Sessions : ClearConversation(s)

SpecConv == ConvInit /\ [][ConvNext]_vars

\* the chat endpoint
ChatInit == NewChatController(ChatLengths)
ChatNext ==
    \/ \E s \in Sessions, c \in Contents : HandleChat(s, c)
    \/ \E s \in Sessions, c \in Replies : HandleChatStreamEnds(s, c)
    \/ \E s \in Sessions : HandleChatFails(s)

SpecChat == ChatInit /\ [][ChatNext]_vars

\* the ConversationManager of part_003: addMessage(sessionId, role, content,
\* systemPrompt)
AddMessageSystem(sessionId, role, content) ==
    /\ Len(GetConversationSystem(conversations, sessionId)[sessionId]) <= MaxStored
    /\ conversations' = AddMessageSystemMap(conversations, sessionId, role,
                                            content, maxConversationLength)
    /\ fn' = "addMessage"
    /\ args' = <<sessionId, role, content>>
    /\ ret' = Append(GetConversationSystem(conversations, sessionId)[sessionId],
                     Message(role, content))
    /\ UNCHANGED <<maxConversationLength, chat, agents, toolVars, once,
                   fetchVars, selVars>>

\* updateLastUserMessage(sessionId, newContent, systemPrompt) of part_003
UpdateLastUserMessageSystem(sessionId, newContent) ==
    /\ conversations' =
           MapSet(conversations, sessionId,
                  UpdatedMessages(GetConversationSystem(conversations,
                                                        sessionId)[sessionId],
                                  newContent))
    /\ fn' = "updateLastUserMessage"
    /\ args' = <<sessionId, newContent>>
    /\ ret' = conversations'[sessionId]
    /\ UNCHANGED <<maxConversationLength, chat, agents, toolVars, once,
                   fetchVars, selVars>>

\* clearConversation(sessionId) of part_003 (lines 73-76)
ClearConversationSystem(sessionId) ==
    /\ conversations' = MapDelete(conversations, sessionId)
    /\ fn' = "clearConversation"
    /\ args' = <<sessionId, Has(conversations, sessionId)>>
    /\ ret' = TRUE
    /\ UNCHANGED <<maxConversationLength, chat, agents, toolVars, once,
                   fetchVars, selVars>>

ConvSystemNext ==
    \/ \E s \in Sessions, r \in Roles, c \in Contents : AddMessageSystem(s, r, c)
    \/ \E s \in Sessions, c \in Contents : UpdateLastUserMessageSystem(s, c)
    \/ \E s \in Sessions : ClearConversationSystem(s)

SpecConvSystem == ConvInit /\ [][ConvSystemNext]_vars

(***************************************************************************)
(* AgentManager (core/agents/AgentManager.js): this.agents and the two     *)
(* selectAgent versions.  An agent is its name, its isActive flag and what *)
(* its canHandle and getPriority answer for the message at hand.           *)
(***************************************************************************)
MaxAgents == 3            \* longest this.agents addAgent is called on

Agent(name, canHandle, priority) ==
    [name |-> name, isActive |-> TRUE, canHandle |-> canHandle,
     priority |-> priority]

OptionsAgent == Agent("OptionsAgent", TRUE, 2)
GeneralFinanceAgent == Agent("GeneralFinanceAgent", FALSE, 1)
CustomAgent == Agent("CustomAgent", TRUE, 1)
NewAgents == {OptionsAgent, GeneralFinanceAgent, CustomAgent}

\* what the LLM answers to the selection prompt, trimmed
SuggestedNames == {"OptionsAgent", "GeneralFinanceAgent", "CustomAgent", "Sorry"}

\* undefined
NoAgent == [name |-> "undefined", isActive |-> FALSE, canHandle |-> FALSE,
            priority |-> 0]

\* array.find(test): the first element passing the test, undefined when none
FirstOf(s, Test(_)) ==
    IF \E i \in 1..Len(s) : Test(s[i])
    THEN s[CHOOSE i \in 1..Len(s) :
                Test(s[i]) /\ \A j \in 1..(i - 1) : ~Test(s[j])]
    ELSE NoAgent

Named(name, agent) == agent.name = name

\* this.agents.find(agent => agent.name === 'GeneralFinanceAgent') || this.agents[0]
Fallback(list) ==
    LET IsGeneral(agent) == Named("GeneralFinanceAgent", agent)
    IN  IF FirstOf(list, IsGeneral) # NoAgent THEN FirstOf(list, IsGeneral)
        ELSE IF Len(list) > 0 THEN list[1]
        ELSE NoAgent

\* selectAgent, AI version (AgentManager.js, lines 161-190), for the name the
\* LLM suggested, or a failed LLM call
SelectedByName(list, trimmedName, failed) ==
    LET Suggested(agent) == agent.name = trimmedName /\ agent.isActive
    IN  IF failed THEN Fallback(list)
        ELSE IF FirstOf(list, Suggested) # NoAgent THEN FirstOf(list, Suggested)
        ELSE Fallback(list)

\* selectAgent, priority version (AgentManager.js, lines 25-41); the sort is
\* stable, so the first of the highest priority comes first
SelectedByPriority(list) ==
    LET Available(agent) == agent.isActive /\ agent.canHandle
        IsGeneral(agent) == Named("GeneralFinanceAgent", agent)
        Best(agent) ==
            /\ Available(agent)
            /\ \A i \in 1..Len(list) :
                   Available(list[i]) => list[i].priority <= agent.priority
    IN  IF FirstOf(list, Available) = NoAgent THEN FirstOf(list, IsGeneral)
        ELSE FirstOf(list, Best)

\* constructor: initializeAgents (lines 13-20)
AgentsInit ==
    /\ FetchInit
    /\ SelIdle
    /\ CallIdle
    /\ ConvIdle
    /\ ToolIdle
    /\ OnceIdle
    /\ agents = <<OptionsAgent, GeneralFinanceAgent>>

AddAgent(agent) ==
    /\ Len(agents) < MaxAgents
    /\ agents' = Append(agents, agent)
    /\ fn' = "addAgent"
    /\ args' = <<agent.name>>
    /\ ret' = <<>>
    /\ UNCHANGED <<convVars, toolVars, once, fetchVars, selVars>>

RemoveAgent(name) ==
    /\ agents' = IF \E i \in 1..Len(agents) : agents[i].name = name
                 THEN LET index == CHOOSE i \in 1..Len(agents) :
                                      /\ agents[i].name = name
                                      /\ \A j \in 1..(i - 1) : agents[j].name # name
                      IN  SubSeq(agents, 1, index - 1)
                          \o SubSeq(agents, index + 1, Len(agents))
                 ELSE agents
    /\ fn' = "removeAgent"
    /\ args' = <<name>>
    /\ ret' = \E i \in 1..Len(agents) : agents[i].name = name
    /\ UNCHANGED <<convVars, toolVars, once, fetchVars, selVars>>

SetAgentActive(name, isActive) ==
    /\ agents' = IF \E i \in 1..Len(agents) : agents[i].name = name
                 THEN [agents EXCEPT
                          ![CHOOSE i \in 1..Len(agents) :
                               /\ agents[i].name = name
                               /\ \A j \in 1..(i - 1) : agents[j].name # name
                           ].isActive = isActive]
                 ELSE agents
    /\ fn' = "setAgentActive"
    /\ args' = <<name, isActive>>
    /\ ret' = \E i \in 1..Len(agents) : agents[i].name = name
    /\ UNCHANGED <<convVars, toolVars, once, fetchVars, selVars>>

SelectAgent(trimmedName, failed) ==
    /\ fn' = "selectAgent"
    /\ args' = <<trimmedName, failed>>
    /\ ret' = SelectedByName(agents, trimmedName, failed)
    /\ UNCHANGED <<agents, convVars, toolVars, once, fetchVars, selVars>>

SelectAgentByPriority ==
    /\ fn' = "selectAgent"
    /\ args' = <<"priority", FALSE>>
    /\ ret' = SelectedByPriority(agents)
    /\ UNCHANGED <<agents, convVars, toolVars, once, fetchVars, selVars>>

AgentsNext ==
    \/ \E agent \in NewAgents : AddAgent(agent)
    \/ \E name \in SuggestedNames : RemoveAgent(name)
    \/ \E name \in SuggestedNames, isActive \in BOOLEAN :
           SetAgentActive(name, isActive)
    \/ \E name \in SuggestedNames, failed \in BOOLEAN : SelectAgent(name, failed)
    \/ SelectAgentByPriority

SpecAgents == AgentsInit /\ [][AgentsNext]_vars

(***************************************************************************)
(* One attempt (_makeApiRequestOnce, lines 38-102): the Promise and the   *)
(* three listeners that settle it.  The events of the request may arrive  *)
(* in any order; resolve and reject act on a pending Promise only.        *)
(***************************************************************************)
SuccessFalseError == "API request failed"
HangUpError == "API request failed: socket hang up"
ErrorReasons == {NetworkError, HangUpError}

\* what the server answered: its status class, whether the body parses, and
\* the parsed body with its success flag
Response(ok2xx, parses, success, json) ==
    [ok2xx |-> ok2xx, parses |-> parses, success |-> success, json |-> json]

ResponsesOnce(endpoint) ==
    {Response(s, p, f, j) : s \in BOOLEAN, p \in BOOLEAN, f \in BOOLEAN,
                            j \in ResponsesFor(endpoint, KindLists)}

Event(type, res, reason) == [type |-> type, res |-> res, reason |-> reason]
NoResponse == Response(FALSE, FALSE, FALSE, NoJson)

\* resolve / reject of a Promise that was settled before change nothing
SettleAgain(o, settled, value, reason) ==
    [o EXCEPT !.settled = settled, !.value = value, !.reason = reason]

Settle(o, settled, value, reason) ==
    IF o.settled = "pending"
    THEN [o EXCEPT !.settled = settled, !.value = value, !.reason = reason]
    ELSE o

\* res.on('end') (lines 69-86)
OnResponseEnd(o, res) ==
    IF ~res.parses THEN Settle(o, "rejected", NoJson, InvalidJsonError)
    ELSE IF res.ok2xx
         THEN IF ~res.success
              THEN Settle(o, "rejected", NoJson, SuccessFalseError)
              ELSE Settle(o, "fulfilled", res.json, NoError)
         ELSE Settle(o, "rejected", NoJson, HttpStatusError)

NewRequestOnce(endpoint) ==
    [endpoint |-> endpoint, settled |-> "pending", value |-> NoJson,
     reason |-> NoError, destroyed |-> FALSE, events |-> <<>>,
     delivered |-> <<>>]

Fired(type) == \E i \in 1..Len(once.events) : once.events[i].type = type

OnceInit ==
    /\ FetchInit
    /\ SelIdle
    /\ CallIdle
    /\ ConvIdle
    /\ AgentsIdle
    /\ ToolIdle
    /\ once \in {NewRequestOnce(e) :
                   e \in {HealthEndpoint, ExpiryEndpoint, ChainEndpoint}}

ResponseEnd(res) ==
    /\ ~Fired("end")
    /\ res \in ResponsesOnce(once.endpoint)
    /\ once' = [OnResponseEnd(once, res) EXCEPT
                   !.events = Append(@, Event("end", res, NoError))]
    /\ UNCHANGED <<convVars, agents, toolVars, fetchVars, selVars, callVars>>

\* req.on('error') (lines 89-92)
ErrorEvent(reason) ==
    /\ ~Fired("error")
    /\ once' = [Settle(once, "rejected", NoJson, reason) EXCEPT
                   !.events = Append(@, Event("error", NoResponse, reason))]
    /\ UNCHANGED <<convVars, agents, toolVars, fetchVars, selVars, callVars>>

\* req.on('timeout') (lines 94-97): req.destroy(), then reject
TimeoutEvent ==
    /\ ~Fired("timeout")
    /\ once' = [Settle(once, "rejected", NoJson, TimeoutError) EXCEPT
                   !.destroyed = TRUE,
                   !.events = Append(@, Event("timeout", NoResponse,
                                              TimeoutError))]
    /\ UNCHANGED <<convVars, agents, toolVars, fetchVars, selVars, callVars>>

\* the await of makeApiRequest (line 22) resumes with the settled Promise
AwaitResumes ==
    /\ once.settled # "pending"
    /\ once.delivered = <<>>
    /\ once' = [once EXCEPT !.delivered =
                   <<Attempt(once.settled = "fulfilled", once.value,
                             once.reason)>>]
    /\ UNCHANGED <<convVars, agents, toolVars, fetchVars, selVars, callVars>>

OnceNext ==
    \/ \E res \in ResponsesOnce(ExpiryEndpoint) \cup ResponsesOnce(ChainEndpoint) :
           ResponseEnd(res)
    \/ \E reason \in ErrorReasons : ErrorEvent(reason)
    \/ TimeoutEvent
    \/ AwaitResumes

SpecOnce == OnceInit /\ [][OnceNext]_vars

(***************************************************************************)
(* calculateExpectedNifty (core/agents/tools/niftyDownsideTool.js) as an   *)
(* async function called concurrently.  Its only await is getOptionChain   *)
(* (line 18); from there to its return it runs without interruption, and   *)
(* line 90 assigns the undeclared name result, a property of the global    *)
(* object shared by every call, which line 97 reads back.                  *)
(***************************************************************************)
ToolParams(hasValue, value, hasPercentage, percentage) ==
    [hasValue |-> hasValue, expectedNiftyValue |-> value,
     hasPercentage |-> hasPercentage, expectedPercentage |-> percentage]

\* the percentages and underlying values drawn make lines 27-28 exact
ToolInputs ==
    {ToolParams(TRUE, v, FALSE, 0) : v \in {125, 160}}
        \cup {ToolParams(FALSE, 0, TRUE, 50), ToolParams(FALSE, 0, FALSE, 0)}

OptionChain(underlying, n) ==
    [underlyingValue |-> underlying,
     optionData |-> GetRelevantStrikesFromLists(ChainUp(n), ChainDown(n),
                        FindATMStrikeFromLists(ChainUp(n), ChainDown(n),
                                               underlying),
                        DefaultRange)]

ToolChains == {OptionChain(u, n) : u \in {100, 200}, n \in {2, 3}}
NoOptionChain == [underlyingValue |-> 0, optionData |-> <<>>]

\* lines 22-33
ExpectedNifty(params, currentNifty) ==
    IF params.hasValue THEN params.expectedNiftyValue
    ELSE (currentNifty * (100 - params.expectedPercentage)) \div 100

\* lines 65-88, without the greeks
PutOptions(optionData, surroundingStrikes) ==
    LET In(opt) == \E i \in 1..Len(surroundingStrikes) :
                       surroundingStrikes[i] = opt.strikePrice
        kept == SelectSeq(optionData, In)
    IN  [i \in 1..Len(kept) |->
            [strikePrice |-> kept[i].strikePrice,
             lastPrice |-> kept[i].put.lastPrice]]

\* lines 20-95: the object built from the call's own parameters and chain
BuiltResult(params, optionChain) ==
    LET currentNifty == optionChain.underlyingValue
        expectedNifty == ExpectedNifty(params, currentNifty)
        strikePrices ==
            SortAsc(AddAll(<<>>, StrikePrices(optionChain.optionData)))
        surroundingStrikes ==
            SurroundingStrikes(strikePrices,
                               ClosestIdx(strikePrices, expectedNifty))
    IN  [currentNifty |-> currentNifty,
         expectedNifty |-> expectedNifty,
         surroundingStrikes |-> surroundingStrikes,
         putOptions |-> PutOptions(optionChain.optionData, surroundingStrikes)]

\* an assignment that leaves a global already set as it is
AssignIfUnset(global, value) == IF global = <<>> THEN value ELSE global

\* line 90: result = {...}
Assign(global, value) == value

NoCall ==
    [pc |-> "idle", params |-> ToolParams(FALSE, 0, FALSE, 0),
     optionChain |-> NoOptionChain, overlapped |-> FALSE,
     kind |-> "none", returned |-> <<>>]

ToolInit ==
    /\ FetchInit
    /\ SelIdle
    /\ CallIdle
    /\ ConvIdle
    /\ AgentsIdle
    /\ OnceIdle
    /\ globalResult = <<>>
    /\ tool = [p \in Procs |-> NoCall]

\* lines 14-18: up to the await of getOptionChain
ToolCalled(p, params) ==
    /\ tool[p].pc = "idle"
    /\ tool' = [tool EXCEPT ![p] =
                  [NoCall EXCEPT !.pc = "awaiting", !.params = params,
                                 !.overlapped =
                                     \E q \in Procs \ {p} :
                                         tool[q].pc = "awaiting"]]
    /\ UNCHANGED <<globalResult, convVars, agents, once, fetchVars, selVars,
                   callVars>>

\* getOptionChain resolved: lines 19-97 in one run
ToolResumes(p, optionChain) ==
    /\ tool[p].pc = "awaiting"
    /\ IF ~tool[p].params.hasValue /\ ~tool[p].params.hasPercentage
       THEN /\ tool' = [tool EXCEPT ![p].pc = "thrown",
                                    ![p].optionChain = optionChain,
                                    ![p].kind = "throw"]
            /\ UNCHANGED globalResult
       ELSE /\ globalResult' =
                   Assign(globalResult, BuiltResult(tool[p].params, optionChain))
            /\ tool' = [tool EXCEPT ![p].pc = "returned",
                                    ![p].optionChain = optionChain,
                                    ![p].kind = "return",
                                    ![p].returned = globalResult']
    /\ UNCHANGED <<convVars, agents, once, fetchVars, selVars, callVars>>

\* getOptionChain rejected: the call rejects at line 18
ToolRejects(p) ==
    /\ tool[p].pc = "awaiting"
    /\ tool' = [tool EXCEPT ![p].pc = "thrown", ![p].kind = "throw"]
    /\ UNCHANGED <<globalResult, convVars, agents, once, fetchVars, selVars,
                   callVars>>

ToolNext ==
    \/ \E p \in Procs, params \in ToolInputs : ToolCalled(p, params)
    \/ \E p \in Procs, optionChain \in ToolChains : ToolResumes(p, optionChain)
    \/ \E p \in Procs : ToolRejects(p)

SpecTool == ToolInit /\ [][ToolNext]_vars

(***************************************************************************)
(* Properties                                                              *)
(***************************************************************************)
\* the makeApiRequest calls of an operation: the running one and the last completed
Calls(p) == {req[p], lastReq[p]} \ {NoRequest}

Failures(r) == {i \in 1..Len(r.log) : ~r.log[i].ok}

Attempts(r) == Len(r.log) + (IF r.st = "inflight" THEN 1 ELSE 0)

FailFailOk(r) ==
    /\ Len(r.log) = 3
    /\ ~r.log[1].ok /\ ~r.log[2].ok /\ r.log[3].ok

LastFailure(r) ==
    IF Failures(r) = {} THEN NoError
    ELSE r.log[CHOOSE i \in Failures(r) : \A j \in Failures(r) : j <= i].err

\* C5: two operations running concurrently, in every interleaving: the
\* attempt counter and last error of each call count and hold that
\* operation's own failed attempts only, a call throws only on 3 failures of
\* its own, and a finished operation returns its own symbol, expiry and body.
C5_NoSharedState ==
    \A p \in Procs :
        /\ \A r \in Calls(p) :
               /\ r.attempt = Cardinality(Failures(r))
               /\ r.lastError = LastFailure(r)
               /\ r.lastError \in ConcErrors(p) \cup {NoError}
               /\ r.st = "thrown" => Cardinality(Failures(r)) = 3
        /\ pc[p] = "done" =>
               /\ result[p].symbol = symbol[p]
               /\ result[p].currentExpiry = foundExpiry[p]
               /\ lastReq[p].st = "returned"
               /\ result[p].underlyingValue = lastReq[p].out.value.underlyingValue

C5_Witness ==
    /\ req["A"].st = "sleep" /\ req["A"].attempt = 2
    /\ req["B"].st = "inflight" /\ req["B"].attempt = 1
    /\ pc["A"] = "chain" /\ pc["B"] = "expiry"
    /\ symbol["A"] # symbol["B"]

IsPrefix(s, t) == Len(s) <= Len(t) /\ \A i \in 1..Len(s) : s[i] = t[i]

\* C6: within one getOptionChain at most one HTTP attempt is in flight; the
\* requests go out in the order health check, expiry dates, option chain;
\* the chain is requested only once the expiry dates have been returned and
\* an expiry has been selected.
C6_Serialized ==
    \A p \in Procs :
        /\ inflight[p] <= 1
        /\ inflight[p] = 1 <=> req[p].st = "inflight"
        /\ IsPrefix(reqLog[p], <<HealthEndpoint, ExpiryEndpoint, ChainEndpoint>>)
        /\ Len(reqLog[p]) = 3 =>
               /\ ExpiryEndpoint \notin exhausted[p]
               /\ expiryDates[p] # <<>>
               /\ foundExpiry[p] # NoExpiry
               /\ \E i \in 1..Len(expiryDates[p]) : expiryDates[p][i] = foundExpiry[p]

C6_Witness ==
    /\ reqLog["A"] = <<HealthEndpoint, ExpiryEndpoint, ChainEndpoint>>
    /\ inflight["A"] = 1
    /\ req["A"].attempt = 1
    /\ TimeoutError \in {req["A"].log[i].err : i \in 1..Len(req["A"].log)}

\* C7 as claimed: an operation one of whose requests failed after its
\* retries never returns a snapshot.
C7_NoErrorSwallowed ==
    \A p \in Procs : exhausted[p] # {} => pc[p] # "done" /\ result[p] = NoSnapshot

AbsMonth(y, m) == y * 12 + m

\* the month offsets 0..3 for which the list has an expiry in month nw + k
MatchingOffsets(list, nw) ==
    {k \in 0..3 : \E i \in 1..Len(list) :
        AbsMonth(list[i].yyyy, MonthIndex(list[i].mmm)) =
            AbsMonth(nw.year, nw.month) + k}

Largest(S) == CHOOSE k \in S : \A j \in S : j <= k

C9_LatestInMonth ==
    (selPc = "selected" /\ selOut # NoExpiry) =>
        \A i \in 1..Len(selList) :
            (selList[i].yyyy = selOut.yyyy /\ selList[i].mmm = selOut.mmm) =>
                selList[i].dd <= selOut.dd

C9_Witness ==
    /\ selPc = "selected"
    /\ Len(selList) = 3
    /\ selOut = selList[1]
    /\ selList[2].mmm = selOut.mmm /\ selList[2].yyyy = selOut.yyyy
    /\ selList[2].dd < selOut.dd
    /\ selList[3].mmm = selOut.mmm /\ selList[3].yyyy = selOut.yyyy
    /\ selList[3].dd < selOut.dd

\* the expiry-dates request of p returned a list
GotExpiryList(p) ==
    /\ lastReq[p].endpoint = ExpiryEndpoint
    /\ lastReq[p].st = "returned"
    /\ lastReq[p].out.value.hasExpiryDates

\* C10: when the list returned has no expiry in any of the months now + 3,
\* now + 2, now + 1, now + 0, getOptionChain throws 'No expiry found for the
\* next 3 months or earlier' ('No expiry dates found' when the list is empty)
\* and no option-chain request is made.
C10_NoExpiryFound ==
    \A p \in Procs :
        (GotExpiryList(p) /\
         MatchingOffsets(lastReq[p].out.value.expiryDates, now[p]) = {}) =>
            /\ pc[p] = "failed"
            /\ error[p] =
                   IF lastReq[p].out.value.expiryDates = <<>>
                   THEN Err("No expiry dates found", NoError)
                   ELSE Err("No expiry found for the next 3 months or earlier",
                            NoError)
            /\ result[p] = NoSnapshot
            /\ \A i \in 1..Len(reqLog[p]) : reqLog[p][i] # ChainEndpoint

C10_Witness ==
    /\ pc["A"] = "failed"
    /\ GotExpiryList("A")
    /\ lastReq["A"].out.value.expiryDates = <<Aug28>>
    /\ now["A"] = Date(2025, 10)
    /\ error["A"].msg = "No expiry found for the next 3 months or earlier"

\* C11 as claimed: the expiry dates getNSEExpiryDates returns are in
\* ascending order of date, and the expiry getOptionChainNearestExpiry
\* fetches, their first, is the earliest of them.
C11_SortedAscending ==
    (fn = "getOptionChainNearestExpiry" /\ ret.error = NoError) =>
        /\ \A i \in 1..Len(ret.expiryDates) - 1 :
               ~DateAfter(ParseDate(ret.expiryDates[i]),
                          ParseDate(ret.expiryDates[i + 1]))
        /\ \A i \in 1..Len(ret.expiryDates) :
               ~DateAfter(ParseDate(ret.nearestExpiry),
                          ParseDate(ret.expiryDates[i]))


\* C12 as claimed: every snapshot getOptionChain returns has
\* underlyingValue > 0.
C12_UnderlyingPositive ==
    \A p \in Procs : pc[p] = "done" => result[p].underlyingValue > 0


InputStrikes ==
    {args.ceOptions[i].strikePrice : i \in 1..Len(args.ceOptions)} \cup
    {args.peOptions[i].strikePrice : i \in 1..Len(args.peOptions)}

\* C13: the strike prices of the optionData getOptionChain returns are in
\* strictly ascending order (so no strike occurs twice), whatever the order
\* and the repetitions of the CE and PE lists.
C13_StrikesDistinctAscending ==
    fn # "none" =>
        \A i \in 1..Len(ret.optionData) : \A j \in 1..Len(ret.optionData) :
            i < j => ret.optionData[i].strikePrice < ret.optionData[j].strikePrice

C13_Witness ==
    /\ fn = "getOptionChain"
    /\ StrikePrices(args.ceOptions) = <<200, 100>>
    /\ StrikePrices(args.peOptions) = <<200, 200>>
    /\ Len(ret.optionData) = 2

Ascending(s) == \A i \in 1..(Len(s) - 1) : s[i] <= s[i + 1]

\* the window of radius r around position c (1-based) of s
WindowAt(s, c, r) == SubSeq(s, Max(1, c - r), Min(Len(s), c + r))

C15_WitnessRelevant ==
    /\ fn = "getRelevantStrikes"
    /\ Len(ret.sortedData) > 2 * 5 + 1
    /\ ret.atmStrike = 100
    /\ ret.range = 5
    /\ Len(ret.relevantStrikes) = 5 + 1

ClosestLowest(strike, strikes, target) ==
    /\ strike \in strikes
    /\ \A k \in strikes :
           /\ Abs(strike - target) <= Abs(k - target)
           /\ Abs(strike - target) = Abs(k - target) => strike <= k

\* C16: the ATM strike findATMStrikeFromLists returns, and the strike
\* calculateExpectedNifty finds closest, is a strike of the input at the
\* least distance from the target, the lowest one of two equally close.
C16_ClosestStrikeLowerOnTie ==
    /\ (fn # "none" /\ InputStrikes # {}) =>
           ClosestLowest(ret.atmStrike, InputStrikes, args.underlyingValue)
    /\ (fn = "calculateExpectedNifty" /\ InputStrikes # {}) =>
           ClosestLowest(ret.strikePrices[ret.closestIdx + 1], InputStrikes,
                         args.expectedNiftyValue)

C16_Witness ==
    /\ fn = "calculateExpectedNifty"
    /\ InputStrikes = {100, 150, 200}
    /\ args.underlyingValue = 125
    /\ ret.atmStrike = 100
    /\ args.expectedNiftyValue = 125
    /\ ret.closestIdx = 0


Analyzes == fn = "analyzeBearPutSpreads"

\* the lot size the claims name: the long leg's, 75 when it has none
ClaimedLotSize(longPut) ==
    IF longPut.hasLotSize THEN longPut.lotSize ELSE 75

\* x is n / d rounded to the nearest integer (d > 0)
Nearest(x, n, d) == 2 * Abs(x * d - n) <= d

C18_NullRiskReward ==
    Analyzes =>
        \A i \in 1..Len(ret) :
            ret[i].metrics.maxLoss <= 0 => ret[i].metrics.riskReward = Null

C18_Witness ==
    /\ Analyzes
    /\ ret[1].metrics.maxLoss < 0
    /\ ret[1].metrics.maxProfit > 0
    /\ ret[1].metrics.riskReward = Null

C18_WitnessZero ==
    /\ Analyzes
    /\ ret[1].metrics.maxLoss = 0
    /\ ret[1].metrics.riskReward = Null

\* C19 as claimed: a candidate whose maxLoss is > 0 gets a non-null
\* riskReward, maxProfit / maxLoss rounded to 2 decimals; riskReward is
\* null only when maxLoss <= 0.
C19_RiskRewardWheneverLoss ==
    Analyzes =>
        \A i \in 1..Len(ret) :
            LET m == ret[i].metrics
            IN  /\ m.maxLoss > 0 =>
                       /\ ~m.riskReward.isNull
                       /\ Nearest(m.riskReward.value, 100 * m.maxProfit,
                                  m.maxLoss)
                /\ m.riskReward.isNull => m.maxLoss <= 0

\* C19 as amended: a candidate whose maxLoss and maxProfit are both > 0
\* gets a non-null riskReward, maxProfit / maxLoss rounded to 2 decimals;
\* riskReward is null exactly when maxLoss <= 0 or maxProfit <= 0.
C19_RiskRewardWhenBothPositive ==
    Analyzes =>
        \A i \in 1..Len(ret) :
            LET m == ret[i].metrics
            IN  /\ (m.maxLoss > 0 /\ m.maxProfit > 0) =>
                       /\ ~m.riskReward.isNull
                       /\ Nearest(m.riskReward.value, 100 * m.maxProfit,
                                  m.maxLoss)
                /\ m.riskReward.isNull <=> (m.maxLoss <= 0 \/ m.maxProfit <= 0)

C19_Witness ==
    /\ Analyzes
    /\ ret[1].metrics.maxLoss > 0
    /\ ret[1].metrics.maxProfit > 0
    /\ (100 * ret[1].metrics.maxProfit) % ret[1].metrics.maxLoss # 0
    /\ ~ret[1].metrics.riskReward.isNull

C19_WitnessNoProfit ==
    /\ Analyzes
    /\ ret[1].metrics.maxLoss > 0
    /\ ret[1].metrics.maxProfit <= 0
    /\ ret[1].metrics.riskReward = Null

\* C20 as claimed: the liquidity annotation of a candidate is true exactly
\* when both legs have volume >= 50 and oi >= 400 (50 with 400 passes, 49
\* with 400 fails, 50 with 399 fails).  The only liquidity annotation of the
\* result is liquidityScore, true as a boolean when it is not 0.
C20_LiquidityFlag ==
    Analyzes =>
        \A i \in 1..Len(ret) :
            (ret[i].metrics.liquidityScore # 0) <=>
                /\ ret[i].longPut.volume >= 50 /\ ret[i].longPut.oi >= 400
                /\ ret[i].shortPut.volume >= 50 /\ ret[i].shortPut.oi >= 400


FlaskNotRunning == "Flask API server is not running. Please start it first."

\* C21 as claimed: once the health check has failed, the operation has
\* failed with 'Flask API server is not running. Please start it first.'
\* and has requested nothing but the health check.
C21_HealthFailureStops ==
    \A p \in Procs :
        HealthEndpoint \in exhausted[p] =>
            /\ pc[p] = "failed"
            /\ error[p].msg = FlaskNotRunning
            /\ reqLog[p] = <<HealthEndpoint>>


\* a message of the conversation as the agent would pass it on
RoleAndContent(messages) ==
    [i \in 1..Len(messages) |-> Message(messages[i].role, messages[i].content)]

\* C22 as claimed: the message list an agent sends to the LLM for a chat
\* request holds, after the system prompt, the messages the session had
\* stored before the request, in order, and then the current user message.
C22_HistorySentToLLM ==
    \A s \in DOMAIN chat :
        chat[s].pc = "streaming" =>
            /\ Len(chat[s].sent) = Len(chat[s].earlier) + 2
            /\ SubSeq(chat[s].sent, 2, Len(chat[s].sent) - 1)
                   = RoleAndContent(chat[s].earlier)
            /\ chat[s].sent[Len(chat[s].sent)]
                   = Message("user", chat[s].message)

\* C23 as claimed: every stored conversation has at most
\* maxConversationLength messages.
C23_ConversationBounded ==
    \A s \in DOMAIN conversations :
        Len(conversations[s]) <= maxConversationLength

\* C26 as claimed: the clear endpoint answers success = true with
\* 'Conversation cleared' when the session had a stored conversation and
\* success = false with 'Conversation not found' when it had none, and the
\* session has no stored conversation afterwards.
C26_ClearReportsExistence ==
    fn = "clearConversation" =>
        /\ ret = (IF args[2]
                  THEN [success |-> TRUE, message |-> "Conversation cleared"]
                  ELSE [success |-> FALSE, message |-> "Conversation not found"])
        /\ ~Has(conversations, args[1])

\* C30 as claimed: the message list addMessage returns is the conversation
\* stored for the session after the call.
C30_ReturnedIsStored ==
    fn = "addMessage" => ret = conversations[args[1]]


\* C24 as claimed: the agent selectAgent returns, by name, by fallback or
\* by priority, has its isActive flag true.
C24_SelectedAgentActive ==
    (fn = "selectAgent" /\ ret # NoAgent) => ret.isActive


SchemaErrors == {"Invalid expiry dates response from API",
                 "Invalid option chain response from API"}

RetriedToTheLimit(r) ==
    /\ r.attempt = Cardinality(Failures(r))
    /\ Len(r.delays) = (IF r.attempt < maxRetries THEN r.attempt
                        ELSE maxRetries - 1)
    /\ r.st = "thrown" <=> Cardinality(Failures(r)) = maxRetries
    /\ (r.log # <<>> /\ ~r.log[Len(r.log)].ok /\ r.attempt < maxRetries)
           => r.st \in {"sleep", "inflight"}

EventOutcome(e) ==
    IF e.type = "timeout" THEN Attempt(FALSE, NoJson, TimeoutError)
    ELSE IF e.type = "error" THEN Attempt(FALSE, NoJson, e.reason)
    ELSE IF ~e.res.parses THEN Attempt(FALSE, NoJson, InvalidJsonError)
    ELSE IF ~e.res.ok2xx THEN Attempt(FALSE, NoJson, HttpStatusError)
    ELSE IF ~e.res.success THEN Attempt(FALSE, NoJson, SuccessFalseError)
    ELSE Attempt(TRUE, e.res.json, NoError)

\* C27: one _makeApiRequestOnce delivers exactly one outcome to the retry
\* loop whatever the order of its response-end, error and timeout events:
\* the first event settles the Promise, later events change nothing, and
\* the retry loop resumes at most once, with the outcome of the first event.
C27_FirstEventFixesOutcome ==
    once # <<>> =>
        /\ (once.settled = "pending") <=> (once.events = <<>>)
        /\ once.events # <<>> =>
               Attempt(once.settled = "fulfilled", once.value, once.reason)
                   = EventOutcome(once.events[1])
        /\ Len(once.delivered) <= 1
        /\ once.delivered # <<>> =>
               once.delivered[1] = EventOutcome(once.events[1])

C27_Witness ==
    /\ once # <<>>
    /\ Len(once.events) = 3
    /\ once.events[1].type = "timeout"
    /\ once.events[2].type = "error"
    /\ once.events[3].type = "end"
    /\ once.events[3].res.parses /\ once.events[3].res.ok2xx
    /\ once.events[3].res.success
    /\ once.destroyed
    /\ once.delivered = <<Attempt(FALSE, NoJson, TimeoutError)>>


\* C28: provided every attempt eventually settles, every getOptionChain
\* call terminates, with a snapshot or with an error, after at most
\* 9 HTTP attempts (3 requests of at most 3 attempts each): it never
\* retries forever.
C28_TerminatesWithinNineAttempts ==
    /\ [](httpAttempts["A"] <= 3 * maxRetries)
    /\ [](pc["A"] \in {"done", "failed"} =>
             /\ req["A"] = NoRequest
             /\ httpAttempts["A"] >= 1)
    /\ (pc["A"] # "idle") ~> (pc["A"] \in {"done", "failed"})

C28_Witness ==
    /\ pc["A"] = "failed"
    /\ httpAttempts["A"] = 3 * maxRetries
    /\ reqLog["A"] = <<HealthEndpoint, ExpiryEndpoint, ChainEndpoint>>
    /\ exhausted["A"] = {HealthEndpoint, ChainEndpoint}


\* C29: two calculateExpectedNifty calls that interleave at their awaits
\* each return the object built from their own parameters and their own
\* option chain, although both assign the same global result.
C29_EachCallReturnsItsOwnResult ==
    tool # <<>> =>
        \A p \in Procs :
            /\ tool[p].pc = "returned" =>
                   tool[p].returned =
                       BuiltResult(tool[p].params, tool[p].optionChain)
            /\ tool[p].pc = "thrown" => tool[p].returned = <<>>

C29_Witness ==
    /\ tool # <<>>
    /\ tool["A"].pc = "returned" /\ tool["B"].pc = "returned"
    /\ tool["B"].overlapped
    /\ tool["A"].returned # tool["B"].returned
    /\ tool["A"].params.hasPercentage /\ tool["B"].params.hasValue
    /\ globalResult = tool["A"].returned

====
